---- MODULE Spec2Model ----
(***************************************************************************)
(* Model of the tree synchronisation code of src/src/storage/s3.rs:        *)
(* S3Storage::sync_directories (remote -> remote), sync_local_to_remote    *)
(* and sync_remote_to_local, the recursive copies upload_directory and     *)
(* download_directory, and the dispatch of main (src/src/main.rs), with    *)
(* the object store and the local filesystem they act on.  The walk of     *)
(* list_files_recursively is followed step by step in a specification of   *)
(* its own, SpecWalk.                                                      *)
(*                                                                         *)
(* Strings are sequences of one-character strings, so that strip_prefix,   *)
(* trim_start_matches, trim_matches, ends_with and format! are computed    *)
(* character by character as the Rust code computes them.  Times are       *)
(* counted in ticks, TicksPerSec ticks to the second: a local mtime keeps  *)
(* its sub-second part, a listed object keeps whole seconds only.          *)
(***************************************************************************)
EXTENDS Integers, Sequences, FiniteSets, Bags, TLC

\* ------------------------------------------------------------------ bounds
MaxFiles == 2
MaxClock == 3
MaxRuns == 2
MaxWorkers == 1
CfgFiles == 1
MaxRetries == 1
MaxEntries == 3
TicksPerSec == 2

\* --------------------------------------------------------- string helpers
SEP == "/"

\* str::starts_with
StartsWith(s, p) == Len(p) <= Len(s) /\ SubSeq(s, 1, Len(p)) = p

\* str::ends_with('/')
EndsWithSep(s) == s # <<>> /\ s[Len(s)] = SEP

\* s.strip_prefix(p).unwrap_or(s)
StripPrefixOr(s, p) ==
    IF StartsWith(s, p) THEN SubSeq(s, Len(p) + 1, Len(s)) ELSE s

RECURSIVE TrimStart(_)
\* s.trim_start_matches('/')
TrimStart(s) == IF s # <<>> /\ Head(s) = SEP THEN TrimStart(Tail(s)) ELSE s

RECURSIVE TrimEnd(_)
\* s.trim_end_matches('/')
TrimEnd(s) ==
    IF s # <<>> /\ s[Len(s)] = SEP THEN TrimEnd(SubSeq(s, 1, Len(s) - 1)) ELSE s

\* s.trim_matches('/')
TrimMatches(s) == TrimEnd(TrimStart(s))

RECURSIVE TrimStartMatches(_, _)
\* s.trim_start_matches(p) for a string pattern p: p is stripped as often as
\* it leads s; the empty pattern strips nothing
TrimStartMatches(s, p) ==
    IF p # <<>> /\ StartsWith(s, p)
    THEN TrimStartMatches(SubSeq(s, Len(p) + 1, Len(s)), p)
    ELSE s

RECURSIVE FirstSep(_, _)
\* index of the first separator of s at or after i, Len(s)+1 when none
FirstSep(s, i) ==
    IF i > Len(s) THEN Len(s) + 1
    ELSE IF s[i] = SEP THEN i ELSE FirstSep(s, i + 1)

RECURSIVE ObjectPathFrom(_)
\* object_store::path::Path::from(&str): split on '/', drop the empty parts,
\* join the rest with '/'
ObjectPathFrom(s) ==
    LET t == TrimStart(s) IN
    IF t = <<>> THEN <<>>
    ELSE LET i == FirstSep(t, 1)
             seg == SubSeq(t, 1, i - 1)
             rest == ObjectPathFrom(SubSeq(t, i, Len(t)))
         IN IF rest = <<>> THEN seg ELSE seg \o <<SEP>> \o rest

\* ------------------------------------------------------------- the trees
\* object keys and local relative paths the initial trees are drawn from
StoreKeys == { <<"b">>, <<"a", SEP, "a">>, <<"a", SEP, "b">>, <<"b", SEP, "b">> }
LocalPaths == { <<"a">>, <<"b">>, <<"a", SEP, "b">> }

\* (size, mtime) of the initial entries: an object's Last-Modified is a whole
\* second, a local mtime may have a sub-second part
StoreMetas ==
    { [size |-> 1, mtime |-> 0], [size |-> 1, mtime |-> TicksPerSec],
      [size |-> 2, mtime |-> 0] }
LocalMetas == { [size |-> 1, mtime |-> 0], [size |-> 1, mtime |-> 1] }

\* the prefixes a run is started with: empty, plain, trailing separator,
\* leading separator
SrcPrefixes == { <<>>, <<"a">>, <<"a", SEP>>, <<SEP, "a">> }
DstPrefixes == { <<>>, <<"b">>, <<"b", SEP>>, <<SEP, "b">> }

\* the prefix pairs of a remote to remote run: one prefix is varied at a time
PrefixPairs ==
    { <<s, <<"b">> >> : s \in SrcPrefixes } \cup { << <<"a">>, d >> : d \in DstPrefixes }

\* a directory of the local tree: a proper ancestor of some file
IsLocalDir(fs, p) == \E q \in DOMAIN fs : StartsWith(q, p \o <<SEP>>)

\* a local tree is well formed when no file is also a directory
LocalOk(fs) == \A p \in DOMAIN fs : ~IsLocalDir(fs, p)

\* partial functions with at most n entries
Trees(keys, metas, n) ==
    UNION { [ks -> metas] : ks \in { k \in SUBSET keys : Cardinality(k) <= n } }


\* ------------------------------------------------------- tree operations
Min(a, b) == IF a <= b THEN a ELSE b

\* f with key k bound to v (HashMap::insert, a put, a file write)
Bind(f, k, v) == [x \in DOMAIN f \cup {k} |-> IF x = k THEN v ELSE f[x]]

\* f without key k (a delete)
Unbind(f, k) == [x \in DOMAIN f \ {k} |-> f[x]]

\* the keys the store lists for a prefix path: every key below "p/", every
\* key when the path is empty
ListKeys(st, p) ==
    { k \in DOMAIN st : p = <<>> \/ StartsWith(k, p \o <<SEP>>) }

\* UNIX_EPOCH + Duration::from_secs(meta.last_modified.timestamp())
WholeSeconds(t) == (t \div TicksPerSec) * TicksPerSec

\* S3Storage::list_files_with_metadata: key -> (size, last_modified)
list_files_with_metadata(st, prefix) ==
    [k \in ListKeys(st, ObjectPathFrom(prefix)) |->
        [size |-> st[k].size, mtime |-> WholeSeconds(st[k].mtime)]]

\* list_files_recursively followed by tokio::fs::metadata of every file:
\* relative path -> (len, modified)
local_files_map(fs) == [p \in DOMAIN fs |-> [size |-> fs[p].size, mtime |-> fs[p].mtime]]

\* ------------------------------------------------------------ path mapping
\* rel_path of sync_directories, sync_remote_to_local and of the delete loop
\* of sync_local_to_remote
rel_path(key, prefix) == TrimStart(StripPrefixOr(key, prefix))

\* dest_path / src_path of sync_directories
JoinEndsWith(prefix, rel) ==
    IF EndsWithSep(prefix) THEN prefix \o rel ELSE prefix \o <<SEP>> \o rel

\* remote_path of sync_local_to_remote and of the delete loop of
\* sync_remote_to_local
JoinTrimmed(prefix, rel) ==
    IF prefix = <<>> THEN rel ELSE TrimMatches(prefix) \o <<SEP>> \o rel

\* src_size != dest_size || src_time != dest_time
Differs(a, b) == a.size # b.size \/ a.mtime # b.mtime

\* an entry is copied when the destination map has no entry at the mapped
\* path or the entry there differs
NeedsCopy(sf, df, s, d) == d \notin DOMAIN df \/ Differs(sf[s], df[d])

\* ---------------------------------------------------------------- the diff
\* sync_directories: files_to_copy
CopySetR2R(sf, df, source, dest) ==
    { [src |-> k, dst |-> JoinEndsWith(dest, rel_path(k, source))] :
        k \in { x \in DOMAIN sf :
                  NeedsCopy(sf, df, x, JoinEndsWith(dest, rel_path(x, source))) } }

\* a delete loop that walks the source map: the keys with no counterpart in
\* the destination map
DeleteSetR2R_source(sf, df, source, dest) ==
    { k \in DOMAIN sf : JoinEndsWith(dest, rel_path(k, source)) \notin DOMAIN df }

\* sync_directories: the destination keys the delete loop removes
DeleteSetR2R(sf, df, source, dest) ==
    { d \in DOMAIN df : JoinEndsWith(source, rel_path(d, dest)) \notin DOMAIN sf }

\* sync_local_to_remote: the uploads of the copy loop
CopySetL2R(sf, df, remote_prefix) ==
    { [src |-> r, dst |-> JoinTrimmed(remote_prefix, r)] :
        r \in { x \in DOMAIN sf :
                  NeedsCopy(sf, df, x, JoinTrimmed(remote_prefix, x)) } }

\* sync_local_to_remote: the remote keys the delete loop removes
DeleteSetL2R(sf, df, remote_prefix) ==
    { d \in DOMAIN df : rel_path(d, remote_prefix) \notin DOMAIN sf }

\* sync_remote_to_local: the downloads of the copy loop (dst is the path
\* below local_dir)
CopySetR2L(sf, df, remote_prefix) ==
    { [src |-> k, dst |-> rel_path(k, remote_prefix)] :
        k \in { x \in DOMAIN sf :
                  NeedsCopy(sf, df, x, rel_path(x, remote_prefix)) } }

\* sync_remote_to_local: the local files the delete loop removes
DeleteSetR2L(sf, df, remote_prefix) ==
    { d \in DOMAIN df : JoinTrimmed(remote_prefix, d) \notin DOMAIN sf }

\* list_objects: the keys under the prefix
list_objects(st, prefix) == ListKeys(st, ObjectPathFrom(prefix))

\* upload_directory: every listed file goes to the prefix joined with its
\* relative path
UploadSet(names, remote_prefix) ==
    { [src |-> r, dst |-> JoinTrimmed(remote_prefix, r)] : r \in names }

\* download_directory: every listed key goes to the path left of it when the
\* prefix, then the separators, are trimmed from its start
DownloadSet(keys, remote_prefix) ==
    { [src |-> k, dst |-> TrimStart(TrimStartMatches(k, remote_prefix))] :
        k \in keys }

\* ------------------------------------------------------------------ state
VARIABLES
    store,               \* the bucket: key -> (size, last_modified)
    local,               \* files below local_dir: relative path -> (size, mtime)
    local_exists,        \* local_dir exists
    clock,               \* the current time, in ticks
    cmd,                 \* the command being run: operation, direction, prefixes, delete flag
    concurrent_uploads,  \* config.transfer_options.concurrent_uploads
    retry_attempts,      \* config.transfer_options.retry_attempts
    bucket,              \* config.default_storage.bucket is Some(_)
    pc,                  \* "start", "sync", "done", "failed" or "killed"
    run,                 \* number of the current run of the command
    source_files,        \* the source snapshot of the run
    dest_files,          \* the destination snapshot of the run
    files_to_copy,       \* transfers of the copy loop not yet begun
    to_delete,           \* destination entries the delete loop has not visited
    inflight,            \* transfers whose source is read and whose write is pending
    written,             \* destination paths written by the run
    deleted,             \* destination paths deleted by the run
    completed,           \* number of transfers completed by the run
    ndeleted,            \* number of deletes completed by the run
    result,              \* what the run returned
    attempts,            \* the calls the run has made: call -> number of times
    tree,                \* the directory list_files_recursively is called on
    dirs,                \* its stack of directories still to read
    files,               \* the relative paths it has collected, with multiplicity
    visited,             \* the directories it has read, with multiplicity
    wpc                  \* "idle", "walk", "done" or "failed"

\* the configuration, and the state of a directory walk
cfgvars == << concurrent_uploads, retry_attempts, bucket >>
walkvars == << tree, dirs, files, visited, wpc >>

vars ==
    << store, local, local_exists, clock, cmd, cfgvars, pc, run, source_files,
       dest_files, files_to_copy, to_delete, inflight, written, deleted,
       completed, ndeleted, result, attempts, walkvars >>

Empty == <<>>
Pending == [pending |-> TRUE]
\* Ok(())
Ok == [ok |-> TRUE]
\* Err(ToolError::Storage(_)), Err(ToolError::Io(_))
Err(kind) == [ok |-> FALSE, err |-> kind]

\* Err(ToolError::Config(_)), Err(ToolError::InvalidOperation(_)) and
\* Err(ToolError::NotImplemented(_)) are Err("Config"), Err("InvalidOperation")
\* and Err("NotImplemented")

\* TransferOptions::concurrent_uploads of Config::default
DefaultConcurrentUploads == 4

\* TransferOptions::retry_attempts of Config::default
DefaultRetryAttempts == 3

\* the sync commands main dispatches to the three sync functions
SyncCmds ==
    { [op |-> "sync", dir |-> "r2r", source |-> sd[1], dest |-> sd[2], delete |-> del] :
        sd \in PrefixPairs, del \in BOOLEAN }
    \cup
    { [op |-> "sync", dir |-> "l2r", source |-> Empty, dest |-> d, delete |-> del] :
        d \in SrcPrefixes, del \in BOOLEAN }
    \cup
    { [op |-> "sync", dir |-> "r2l", source |-> s, dest |-> Empty, delete |-> del] :
        s \in SrcPrefixes, del \in BOOLEAN }

\* the remote prefixes of the recursive copies
CopyPrefixes == { <<"a">>, <<"a", SEP>> }

\* the recursive copy commands: upload_directory, download_directory, and
\* the cloud to cloud copy
CopyCmds ==
    { [op |-> "copy", dir |-> "l2r", source |-> Empty, dest |-> d, delete |-> FALSE] :
        d \in CopyPrefixes }
    \cup
    { [op |-> "copy", dir |-> "r2l", source |-> s, dest |-> Empty, delete |-> FALSE] :
        s \in CopyPrefixes }
    \cup
    { [op |-> "copy", dir |-> "r2r", source |-> <<"a">>, dest |-> <<"b">>, delete |-> FALSE] }

\* a copy and a sync whose source and destination are both local paths
LocalCmds ==
    { [op |-> o, dir |-> "l2l", source |-> Empty, dest |-> Empty, delete |-> FALSE] :
        o \in {"copy", "sync"} }

\* the commands of main: Commands::Copy with recursive set, Commands::Sync
Cmds == SyncCmds \cup CopyCmds \cup LocalCmds

\* the keys a bucket holds when a recursive copy is run on it
CopyKeys == { <<"b">>, <<"a", SEP, "b">>, <<"a", SEP, "a", SEP, "b">> }

UsesLocal(c) == c.dir # "r2r"

\* the trees a command starts on: at most n entries in all, the local
\* tree left out of a remote to remote run
InitTrees(c, st, fs, ex, n) ==
    /\ st \in Trees(IF c.op = "copy" THEN CopyKeys ELSE StoreKeys, StoreMetas, n)
    /\ IF UsesLocal(c)
       THEN /\ fs \in Trees(LocalPaths, LocalMetas, n)
            /\ Cardinality(DOMAIN st) + Cardinality(DOMAIN fs) <= n
            /\ LocalOk(fs)
            /\ ex \in BOOLEAN
            /\ (fs # Empty => ex)
       ELSE fs = Empty /\ ex = FALSE

InitRun ==
    /\ pc = "start"
    /\ run = 1
    /\ source_files = Empty
    /\ dest_files = Empty
    /\ files_to_copy = {}
    /\ to_delete = {}
    /\ inflight = {}
    /\ written = {}
    /\ deleted = {}
    /\ completed = 0
    /\ ndeleted = 0
    /\ result = Pending
    /\ attempts = EmptyBag

\* no directory walk is being followed
IdleWalk ==
    /\ tree = Empty
    /\ dirs = <<>>
    /\ files = EmptyBag
    /\ visited = EmptyBag
    /\ wpc = "idle"

\* a command started with the default configuration
Init ==
    /\ cmd \in Cmds
    /\ InitTrees(cmd, store, local, local_exists, MaxFiles)
    /\ clock = TicksPerSec
    /\ concurrent_uploads = DefaultConcurrentUploads
    /\ retry_attempts = DefaultRetryAttempts
    /\ bucket \in BOOLEAN
    /\ InitRun
    /\ IdleWalk

\* a command started with a configuration file that sets concurrent_uploads
\* and retry_attempts
InitCfg ==
    /\ cmd \in Cmds
    /\ InitTrees(cmd, store, local, local_exists, CfgFiles)
    /\ clock = TicksPerSec
    /\ concurrent_uploads \in 0 .. MaxWorkers
    /\ retry_attempts \in 0 .. MaxRetries
    /\ bucket \in BOOLEAN
    /\ InitRun
    /\ IdleWalk

\* ---------------------------------------------------------------- actions
RemoteDest == cmd.dir \in {"r2r", "l2r"}
RemoteSource == cmd.dir \in {"r2r", "r2l"}

\* the error a failed read of the source, or a failed write or delete at the
\* destination, is mapped to
ReadErr == IF RemoteSource THEN Err("Storage") ELSE Err("Io")
WriteErr == IF RemoteDest THEN Err("Storage") ELSE Err("Io")

\* a match that runs the operation whatever the two paths are
Dispatch_through(c) == c.op

\* the arm of main's match a command is routed to: the operation itself, or
\* the error returned for two local paths and for a cloud to cloud copy
Dispatch(c) ==
    IF c.dir = "l2l" THEN "InvalidOperation"
    ELSE IF c.op = "copy" /\ c.dir = "r2r" THEN "NotImplemented"
    ELSE c.op

\* the storage was built and the command reached a function of S3Storage
Runs == bucket /\ Dispatch(cmd) \in {"sync", "copy"}

\* download_directory is running: it creates the parent directory of a file
\* before it calls download_file
Download == cmd.op = "copy" /\ cmd.dir = "r2l"

\* the errors a transfer can fail with before its data is read
ReadErrs == IF Download THEN {Err("Io"), Err("Storage")} ELSE {ReadErr}

\* an error that is logged and the loop goes on
AfterFailure_continue == "sync"

\* the `?` of every awaited call: the function returns the error at once
AfterFailure == "failed"

\* a call that is made again until retry_attempts is used up
MaxAttempts_retry(n) == n + 1

\* the number of times a call is made when it keeps failing: each call site
\* is one awaited call followed by `?`, and retry_attempts is read nowhere
MaxAttempts(n) == 1

\* a call of the run: a listing, the read or the write of the transfer of a
\* source entry, the delete of a destination entry
Att(kind, path) == [kind |-> kind, path |-> path]

\* the calls made so far, and the calls S made once more
Attempt(S) == attempts (+) SetToBag(S)

\* the failed call a is made again
Retry(a) == CopiesIn(a, attempts) + 1 < MaxAttempts(retry_attempts)

\* the listings of a run: source then destination; a copy lists its source
Listings ==
    IF cmd.op = "copy" THEN { Att("list_source", Empty) }
    ELSE { Att("list_source", Empty), Att("list_dest", Empty) }

\* the copy loop awaits each transfer before it begins the next
CanStart == inflight = {}

\* a delete loop that does not wait for the copy loop
CanDelete_early == TRUE

\* the delete loop follows the copy loop
CanDelete == files_to_copy = {} /\ inflight = {}

\* create_dir_all(parent) succeeds unless an ancestor of the path is a file
ParentCreatable(fs, p) == \A q \in DOMAIN fs : ~StartsWith(p, q \o <<SEP>>)

\* create_dir_all(parent) and fs::write succeed unless the path is a
\* directory or one of its ancestors is a file
LocalWritable(fs, p) ==
    /\ ~IsLocalDir(fs, p)
    /\ \A q \in DOMAIN fs : ~StartsWith(p, q \o <<SEP>>)

\* the path a transfer writes: the object path of dst, or dst below local_dir
Target(dst) == IF RemoteDest THEN ObjectPathFrom(dst) ELSE dst

\* the times a write may be stamped with
Nows == clock .. Min(clock + 1, MaxClock)

\* Config::load fails, or the configuration names no bucket and
\* S3Storage::new fails: main returns the error before it looks at the command
SetupFail ==
    /\ pc = "start"
    /\ pc' = "failed"
    /\ result' = Err("Config")
    /\ UNCHANGED << store, local, local_exists, clock, cmd, cfgvars, walkvars,
                    run, source_files, dest_files, files_to_copy, to_delete,
                    inflight, written, deleted, completed, ndeleted, attempts >>

\* main returns the error of an arm that runs nothing
Unsupported ==
    /\ pc = "start"
    /\ bucket
    /\ Dispatch(cmd) \in {"InvalidOperation", "NotImplemented"}
    /\ pc' = "failed"
    /\ result' = Err(Dispatch(cmd))
    /\ UNCHANGED << store, local, local_exists, clock, cmd, cfgvars, walkvars,
                    run, source_files, dest_files, files_to_copy, to_delete,
                    inflight, written, deleted, completed, ndeleted, attempts >>

\* the listings succeed and the transfers and deletes are computed
StartOk ==
    /\ pc = "start"
    /\ Runs
    /\ (cmd.dir = "l2r" => local_exists)
    /\ LET copy == cmd.op = "copy"
           sf == IF copy
                 THEN IF RemoteSource
                      THEN [k \in list_objects(store, cmd.source) |-> Empty]
                      ELSE [p \in DOMAIN local |-> Empty]
                 ELSE IF RemoteSource
                      THEN list_files_with_metadata(store, cmd.source)
                      ELSE local_files_map(local)
           df == IF copy THEN Empty
                 ELSE IF RemoteDest
                      THEN list_files_with_metadata(store, cmd.dest)
                      ELSE local_files_map(local)
       IN /\ source_files' = sf
          /\ dest_files' = df
          /\ files_to_copy' =
                IF copy
                THEN CASE cmd.dir = "l2r" -> UploadSet(DOMAIN sf, cmd.dest)
                       [] cmd.dir = "r2l" -> DownloadSet(DOMAIN sf, cmd.source)
                       [] OTHER -> {}
                ELSE CASE cmd.dir = "r2r" -> CopySetR2R(sf, df, cmd.source, cmd.dest)
                       [] cmd.dir = "l2r" -> CopySetL2R(sf, df, cmd.dest)
                       [] cmd.dir = "r2l" -> CopySetR2L(sf, df, cmd.source)
                       [] OTHER -> {}
          /\ to_delete' =
                IF copy \/ ~cmd.delete THEN {}
                ELSE CASE cmd.dir = "r2r" -> DeleteSetR2R(sf, df, cmd.source, cmd.dest)
                       [] cmd.dir = "l2r" -> DeleteSetL2R(sf, df, cmd.dest)
                       [] cmd.dir = "r2l" -> DeleteSetR2L(sf, df, cmd.source)
                       [] OTHER -> {}
    /\ local_exists' = IF cmd.op = "sync" /\ cmd.dir = "r2l" THEN TRUE ELSE local_exists
    /\ attempts' = Attempt(Listings)
    /\ pc' = "sync"
    /\ UNCHANGED << store, local, clock, cmd, cfgvars, walkvars, run, inflight,
                    written, deleted, completed, ndeleted, result >>

\* a listing fails: of the source, of the destination, or (sync remote to
\* local) the create_dir_all between the two
StartFail(stage) ==
    /\ pc = "start"
    /\ Runs
    /\ stage = "mkdir" => cmd.op = "sync" /\ cmd.dir = "r2l"
    /\ stage = "dest" => cmd.op = "sync"
    /\ LET a == Att(CASE stage = "source" -> "list_source"
                      [] stage = "mkdir" -> "mkdir"
                      [] stage = "dest" -> "list_dest", Empty)
           before == IF stage = "source" THEN {} ELSE { Att("list_source", Empty) }
       IN /\ attempts' = Attempt(before \cup {a})
          /\ pc' = IF Retry(a) THEN pc ELSE AfterFailure
          /\ result' =
                IF Retry(a) THEN result
                ELSE IF stage = "mkdir" THEN Err("Io")
                ELSE IF stage = "source" THEN ReadErr ELSE WriteErr
    /\ local_exists' =
          IF cmd.dir = "r2l" /\ stage = "dest" THEN TRUE ELSE local_exists
    /\ UNCHANGED << store, local, clock, cmd, cfgvars, walkvars, run,
                    source_files, dest_files, files_to_copy, to_delete, inflight,
                    written, deleted, completed, ndeleted >>

\* a transfer begins: the source is read into memory
TransferRead(t) ==
    /\ pc = "sync"
    /\ t \in files_to_copy
    /\ CanStart
    /\ t.src \in DOMAIN (IF RemoteSource THEN store ELSE local)
    /\ Download => ParentCreatable(local, t.dst)
    /\ inflight' = inflight \cup
          { [src |-> t.src, dst |-> t.dst,
             size |-> IF RemoteSource THEN store[t.src].size ELSE local[t.src].size] }
    /\ files_to_copy' = files_to_copy \ {t}
    /\ local_exists' = (local_exists \/ Download)
    /\ attempts' = Attempt({ Att("read", t.src) })
    /\ UNCHANGED << store, local, clock, cmd, cfgvars, walkvars,
                    pc, run, source_files, dest_files, to_delete, written,
                    deleted, completed, ndeleted, result >>

\* the read of the source fails with e; in download_directory e is the Io
\* error of create_dir_all or the Storage error of the get that follows it
TransferReadFail(t, e) ==
    /\ pc = "sync"
    /\ t \in files_to_copy
    /\ CanStart
    /\ e \in ReadErrs
    /\ LET a == Att("read", t.src)
       IN /\ attempts' = Attempt({a})
          /\ pc' = IF Retry(a) THEN pc ELSE AfterFailure
          /\ result' = IF Retry(a) THEN result ELSE e
    /\ local_exists' = (local_exists \/ (Download /\ e = Err("Storage")))
    /\ UNCHANGED << store, local, clock, cmd, cfgvars, walkvars,
                    run, source_files, dest_files, files_to_copy, to_delete,
                    inflight, written, deleted, completed, ndeleted >>

\* a transfer ends: the data is written to the destination
TransferWrite(x, now) ==
    /\ pc = "sync"
    /\ x \in inflight
    /\ now \in Nows
    /\ IF RemoteDest
       THEN /\ store' = Bind(store, Target(x.dst), [size |-> x.size, mtime |-> now])
            /\ local' = local
       ELSE /\ LocalWritable(local, x.dst)
            /\ local' = Bind(local, Target(x.dst), [size |-> x.size, mtime |-> now])
            /\ store' = store
    /\ clock' = now
    /\ inflight' = inflight \ {x}
    /\ written' = written \cup {Target(x.dst)}
    /\ completed' = completed + 1
    /\ local_exists' = (local_exists \/ ~RemoteDest)
    /\ attempts' = Attempt({ Att("write", x.src) })
    /\ UNCHANGED << cmd, cfgvars, walkvars, pc, run, source_files,
                    dest_files, files_to_copy, to_delete, deleted, ndeleted,
                    result >>

\* the write to the destination fails
TransferWriteFail(x) ==
    /\ pc = "sync"
    /\ x \in inflight
    /\ LET a == Att("write", x.src)
       IN /\ attempts' = Attempt({a})
          /\ inflight' = IF Retry(a) THEN inflight ELSE inflight \ {x}
          /\ pc' = IF Retry(a) THEN pc ELSE AfterFailure
          /\ result' = IF Retry(a) THEN result ELSE WriteErr
    /\ UNCHANGED << store, local, local_exists, clock, cmd, cfgvars, walkvars,
                    run, source_files, dest_files, files_to_copy, to_delete,
                    written, deleted, completed, ndeleted >>

\* the delete loop removes a destination entry
DeleteStep(d) ==
    /\ pc = "sync"
    /\ CanDelete
    /\ d \in to_delete
    /\ IF RemoteDest
       THEN store' = Unbind(store, d) /\ local' = local
       ELSE d \in DOMAIN local /\ local' = Unbind(local, d) /\ store' = store
    /\ to_delete' = to_delete \ {d}
    /\ deleted' = deleted \cup {d}
    /\ ndeleted' = ndeleted + 1
    /\ attempts' = Attempt({ Att("delete", d) })
    /\ UNCHANGED << local_exists, clock, cmd, cfgvars, walkvars, pc, run,
                    source_files, dest_files, files_to_copy, inflight, written,
                    completed, result >>

\* a delete fails
DeleteFail(d) ==
    /\ pc = "sync"
    /\ CanDelete
    /\ d \in to_delete
    /\ LET a == Att("delete", d)
       IN /\ attempts' = Attempt({a})
          /\ pc' = IF Retry(a) THEN pc ELSE AfterFailure
          /\ result' = IF Retry(a) THEN result ELSE WriteErr
    /\ UNCHANGED << store, local, local_exists, clock, cmd, cfgvars, walkvars,
                    run, source_files, dest_files, files_to_copy, to_delete,
                    inflight, written, deleted, completed, ndeleted >>

\* another writer removes a destination entry the run has queued for
\* deletion: the snapshot is not taken again before the delete loop
Vanish(d) ==
    /\ pc = "sync"
    /\ d \in to_delete
    /\ IF RemoteDest
       THEN d \in DOMAIN store /\ store' = Unbind(store, d) /\ local' = local
       ELSE d \in DOMAIN local /\ local' = Unbind(local, d) /\ store' = store
    /\ UNCHANGED << local_exists, clock, cmd, cfgvars, walkvars, pc, run,
                    source_files, dest_files, files_to_copy, to_delete, inflight,
                    written, deleted, completed, ndeleted, result, attempts >>

\* both loops are over: Ok(())
Finish ==
    /\ pc = "sync"
    /\ files_to_copy = {}
    /\ inflight = {}
    /\ to_delete = {}
    /\ pc' = "done"
    /\ result' = Ok
    /\ UNCHANGED << store, local, local_exists, clock, cmd, cfgvars, walkvars,
                    run, source_files, dest_files, files_to_copy, to_delete,
                    inflight, written, deleted, completed, ndeleted, attempts >>

\* the process is interrupted while the command runs: main installs no signal
\* handler and the functions of S3Storage take no cancellation token, so the
\* run ends where it stands, a transfer in flight is dropped before its
\* write, and no Result is returned
Interrupt ==
    /\ pc \in {"start", "sync"}
    /\ pc' = "killed"
    /\ UNCHANGED << store, local, local_exists, clock, cmd, cfgvars, walkvars,
                    run, source_files, dest_files, files_to_copy, to_delete,
                    inflight, written, deleted, completed, ndeleted, result,
                    attempts >>

\* the same command is run again on the trees the last run left
Rerun ==
    /\ pc = "done"
    /\ run < MaxRuns
    /\ pc' = "start"
    /\ run' = run + 1
    /\ source_files' = Empty
    /\ dest_files' = Empty
    /\ files_to_copy' = {}
    /\ to_delete' = {}
    /\ written' = {}
    /\ deleted' = {}
    /\ completed' = 0
    /\ ndeleted' = 0
    /\ result' = Pending
    /\ attempts' = EmptyBag
    /\ UNCHANGED << store, local, local_exists, clock, cmd, cfgvars, walkvars,
                    inflight >>

Next ==
    \/ SetupFail
    \/ Unsupported
    \/ StartOk
    \/ \E stage \in {"source", "mkdir", "dest"} : StartFail(stage)
    \/ \E t \in files_to_copy : TransferRead(t)
    \/ \E t \in files_to_copy, e \in ReadErrs : TransferReadFail(t, e)
    \/ \E x \in inflight, now \in Nows : TransferWrite(x, now)
    \/ \E x \in inflight : TransferWriteFail(x)
    \/ \E d \in to_delete : DeleteStep(d)
    \/ \E d \in to_delete : DeleteFail(d)
    \/ \E d \in to_delete : Vanish(d)
    \/ Finish
    \/ Interrupt
    \/ Rerun

Spec == Init /\ [][Next]_vars

SpecCfg == InitCfg /\ [][Next]_vars

\* ------------------------------------------- list_files_recursively, step
\* ------------------------------------------- by step
\* Paths are sequences of components, as std::path::Path compares them.
\* The directory the walk is called on
WalkRoot == <<"d">>

\* where a symbolic link that leaves the walked directory points
Outside == <<"..">>

\* the paths an entry can have below WalkRoot
WalkPaths == { <<"a">>, <<"b">>, <<"a", "a">>, <<"a", "b">> }

\* what an entry can be: a file, a directory, a symbolic link to the walked
\* directory itself (a cycle), a symbolic link to a directory outside it
WalkKinds ==
    { [kind |-> "file", to |-> <<>>], [kind |-> "dir", to |-> <<>>],
      [kind |-> "link", to |-> <<>>], [kind |-> "link", to |-> Outside] }

\* the finite directory trees of at most n entries: every entry below the
\* top lies in a directory
WalkTrees(n) ==
    { t \in UNION { [ps -> WalkKinds] :
                      ps \in { q \in SUBSET WalkPaths : Cardinality(q) <= n } } :
        \A p \in DOMAIN t :
            Len(p) > 1 =>
                /\ SubSeq(p, 1, Len(p) - 1) \in DOMAIN t
                /\ t[SubSeq(p, 1, Len(p) - 1)].kind = "dir" }

\* path.strip_prefix(WalkRoot)
StripRoot(p) == SubSeq(p, Len(WalkRoot) + 1, Len(p))

RECURSIVE Real(_, _, _)
\* where the kernel arrives when it resolves the components rest from the
\* directory cur, following every symbolic link on the way
Real(t, cur, rest) ==
    IF rest = <<>> THEN cur
    ELSE LET c == cur \o <<Head(rest)>>
         IN IF c \in DOMAIN t /\ t[c].kind = "link"
            THEN Real(t, t[c].to, Tail(rest))
            ELSE Real(t, c, Tail(rest))

\* read_dir(dir): the paths of the entries of the directory dir resolves to
read_dir(t, dir) ==
    LET r == Real(t, <<>>, StripRoot(dir))
    IN { dir \o <<q[Len(q)]>> :
           q \in { x \in DOMAIN t : Len(x) = Len(r) + 1 /\ SubSeq(x, 1, Len(r)) = r } }

\* a test that follows symbolic links, as fs::metadata(entry.path()).is_dir()
is_dir_follow(t, e) ==
    LET r == Real(t, <<>>, StripRoot(e))
    IN r = <<>> \/ r = Outside \/ (r \in DOMAIN t /\ t[r].kind = "dir")

\* entry.file_type().is_dir(): the type of the entry itself, a symbolic link
\* is not a directory
is_dir(t, e) ==
    LET rel == StripRoot(e)
        loc == Real(t, <<>>, SubSeq(rel, 1, Len(rel) - 1)) \o <<rel[Len(rel)]>>
    IN loc \in DOMAIN t /\ t[loc].kind = "dir"

\* the orders read_dir can return a set of entries in
Orders(S) ==
    { f \in [1 .. Cardinality(S) -> S] : \A i, j \in DOMAIN f : f[i] = f[j] => i = j }

\* a walk of a finite tree is about to begin
InitWalk ==
    /\ cmd = [op |-> "sync", dir |-> "l2r", source |-> Empty, dest |-> Empty,
              delete |-> FALSE]
    /\ store = Empty
    /\ local = Empty
    /\ local_exists = TRUE
    /\ clock = TicksPerSec
    /\ concurrent_uploads = DefaultConcurrentUploads
    /\ retry_attempts = DefaultRetryAttempts
    /\ bucket = TRUE
    /\ InitRun
    /\ tree \in WalkTrees(MaxEntries)
    /\ dirs = <<>>
    /\ files = EmptyBag
    /\ visited = EmptyBag
    /\ wpc = "idle"

syncvars ==
    << store, local, local_exists, clock, cmd, cfgvars, pc, run, source_files,
       dest_files, files_to_copy, to_delete, inflight, written, deleted,
       completed, ndeleted, result, attempts >>

\* let mut files = Vec::new(); let mut dirs = vec![path.to_path_buf()];
WalkStart ==
    /\ wpc = "idle"
    /\ wpc' = "walk"
    /\ dirs' = << WalkRoot >>
    /\ files' = EmptyBag
    /\ visited' = EmptyBag
    /\ UNCHANGED << tree, syncvars >>

\* one turn of the outer loop: the last directory pushed is popped and read,
\* its directories are pushed in the order read_dir returns them, the rest
\* of its entries are collected with their paths relative to WalkRoot
WalkDir(order) ==
    /\ wpc = "walk"
    /\ dirs # <<>>
    /\ LET dir == dirs[Len(dirs)]
           entries == read_dir(tree, dir)
           subdirs == { e \in entries : is_dir(tree, e) }
       IN /\ order \in Orders(subdirs)
          /\ dirs' = SubSeq(dirs, 1, Len(dirs) - 1) \o order
          /\ files' = files (+) SetToBag({ StripRoot(e) : e \in entries \ subdirs })
          /\ visited' = visited (+) SetToBag({dir})
    /\ UNCHANGED << tree, wpc, syncvars >>

\* read_dir, next_entry or file_type fails: the walk returns the Io error
WalkFail ==
    /\ wpc = "walk"
    /\ dirs # <<>>
    /\ wpc' = "failed"
    /\ UNCHANGED << tree, dirs, files, visited, syncvars >>

\* the stack is empty: Ok(files)
WalkDone ==
    /\ wpc = "walk"
    /\ dirs = <<>>
    /\ wpc' = "done"
    /\ UNCHANGED << tree, dirs, files, visited, syncvars >>

NextWalk ==
    \/ WalkStart
    \/ \E order \in UNION { Orders(S) : S \in SUBSET { WalkRoot \o p : p \in WalkPaths } } :
          WalkDir(order)
    \/ WalkFail
    \/ WalkDone

\* the walk is one loop of one task: it goes on while it can
SpecWalk == InitWalk /\ [][NextWalk]_vars /\ WF_vars(NextWalk)

TypeOK ==
    /\ pc \in {"start", "sync", "done", "failed", "killed"}
    /\ run \in 1 .. MaxRuns
    /\ clock \in 0 .. MaxClock
    /\ wpc \in {"idle", "walk", "done", "failed"}

\* ------------------------------------------------- what the claims speak of
\* the roots of the two trees, as object paths (the local root is local_dir)
SrcRoot == ObjectPathFrom(cmd.source)
DstRoot == ObjectPathFrom(cmd.dest)

\* the path of a listed key relative to the root it was listed under
RelUnder(key, root) ==
    IF root = <<>> THEN key ELSE SubSeq(key, Len(root) + 2, Len(key))

\* the path of a relative path below a root
Below(root, rel) == IF root = <<>> THEN rel ELSE root \o <<SEP>> \o rel

\* relative path of a source entry, and of a destination entry
SrcRel(s) == IF RemoteSource THEN RelUnder(s, SrcRoot) ELSE s
DstRel(d) == IF RemoteDest THEN RelUnder(d, DstRoot) ELSE d

\* destination path of a relative path
DstPath(rel) == IF RemoteDest THEN Below(DstRoot, rel) ELSE rel

\* the relative paths now under the source root and under the destination root
SourceRelPaths ==
    IF RemoteSource THEN { RelUnder(k, SrcRoot) : k \in ListKeys(store, SrcRoot) }
    ELSE DOMAIN local
DestPaths == IF RemoteDest THEN ListKeys(store, DstRoot) ELSE DOMAIN local
DestRelPaths == { DstRel(d) : d \in DestPaths }

\* a sync whose two roots differ
DistinctRoots == cmd.op = "sync" /\ (cmd.dir = "r2r" => SrcRoot # DstRoot)

\* a sync whose two roots name disjoint trees
DisjointTrees ==
    /\ cmd.op = "sync"
    /\ cmd.dir = "r2r" => SrcRoot # <<>> /\ DstRoot # <<>> /\ SrcRoot # DstRoot

\* the diff has been computed and no action has been applied yet
Fresh == pc = "sync" /\ inflight = {} /\ completed = 0 /\ ndeleted = 0

\* the run returned an error
Failed == result # Pending /\ result # Ok

\* ------------------------------------------------------------------ claims
\* C1: when a sync of disjoint trees returns success, with delete enabled the
\* relative paths under the destination root are those under the source
\* root; with delete disabled every source relative path exists under the
\* destination root and no entry of the destination snapshot has been removed.
C1_DestMirrorsSource ==
    (pc = "done" /\ DisjointTrees) =>
        IF cmd.delete
        THEN DestRelPaths = SourceRelPaths
        ELSE SourceRelPaths \subseteq DestRelPaths /\ DOMAIN dest_files \subseteq DestPaths

\* C2: between different roots, the diff transfers a source entry if and only
\* if the destination snapshot has no entry at the mapped destination path or
\* that entry's (size, modifiedTime) differs.
C2_TransferIffMissingOrDifferent ==
    (Fresh /\ DistinctRoots) =>
        { t.src : t \in files_to_copy } =
            { s \in DOMAIN source_files :
                \/ DstPath(SrcRel(s)) \notin DOMAIN dest_files
                \/ Differs(source_files[s], dest_files[DstPath(SrcRel(s))]) }

\* C3: between different roots, with delete enabled the deletes are the
\* destination paths whose relative path is absent from the source snapshot;
\* with delete disabled there is none.
C3_DeleteIffAbsentFromSource ==
    (Fresh /\ DistinctRoots) =>
        to_delete =
            IF cmd.delete
            THEN { d \in DOMAIN dest_files :
                     DstRel(d) \notin { SrcRel(s) : s \in DOMAIN source_files } }
            ELSE {}

\* C4: in a sync of disjoint trees no destination path is both written by a
\* transfer and deleted in the same run.
C4_TransfersAndDeletesDisjoint == DisjointTrees => written \cap deleted = {}

\* C5: within a run no delete is applied while a transfer is queued or in
\* flight, and once a delete has been applied no transfer begins or ends.
C5_TransfersBeforeDeletes ==
    [][ run' = run =>
          /\ (ndeleted' > ndeleted => files_to_copy = {} /\ inflight = {})
          /\ (ndeleted > 0 => inflight' = inflight /\ completed' = completed) ]_vars

\* a run that completed a transfer and then applied a delete
C5_Witness == completed > 0 /\ ndeleted > 0

\* mapping a relative path to its destination path and back, as the copy loop
\* and the delete loop of each direction do it
RoundTrip(c, p) ==
    CASE c.dir = "r2r" -> rel_path(ObjectPathFrom(JoinEndsWith(c.dest, p)), c.dest)
      [] c.dir = "l2r" -> rel_path(ObjectPathFrom(JoinTrimmed(c.dest, p)), c.dest)
      [] c.dir = "r2l" -> p

\* well-formed relative paths
RelPaths == { <<"a">>, <<"b">>, <<"a", SEP, "b">>, <<"b", SEP, "a">> }

\* C6: in a run with any destination root prefix, mapping a well-formed
\* relative path to its destination path and back yields the path again.
C6_RoundTrip == pc = "sync" => \A p \in RelPaths : RoundTrip(cmd, p) = p

\* the prefixes of the command have no leading or trailing separator
PlainPrefixes == cmd.source = SrcRoot /\ cmd.dest = DstRoot

\* C7: the second of two successive runs with delete disabled, between
\* disjoint trees named by plain prefixes, performs no transfer.
C7_SecondRunTransfersNothing ==
    (Fresh /\ run = 2 /\ ~cmd.delete /\ DisjointTrees /\ PlainPrefixes) =>
        files_to_copy = {}

\* C8: once an action has failed the run has returned that error, nothing
\* more is applied to either tree, and the failing step itself undoes nothing.
C8_FailureAborts ==
    [][ /\ (Failed => /\ pc = "failed" /\ result' = result
                      /\ store' = store /\ local' = local
                      /\ written' = written /\ deleted' = deleted)
        /\ (Failed' => /\ store' = store /\ local' = local
                       /\ written' = written /\ deleted' = deleted
                       /\ completed' = completed /\ ndeleted' = ndeleted) ]_vars

\* a run that failed after it had applied a transfer that is still in place
C8_Witness ==
    /\ pc = "failed"
    /\ Failed
    /\ completed > 0
    /\ written \subseteq DestPaths

\* C9: a run that fails on a transfer in the middle of the queue returns a
\* report whose transferred count is the number of transfers completed before
\* the failing one.
C9_FailureReportsCount ==
    (pc = "failed" /\ completed > 0 /\ files_to_copy # {}) =>
        "transferred" \in DOMAIN result /\ result["transferred"] = completed

\* C10: the number of transfers in flight never exceeds concurrent_uploads.
C10_InflightWithinLimit == Cardinality(inflight) <= concurrent_uploads

\* C11: a run that ended on an external cancellation signal left no transfer
\* in flight unfinished and returned a Cancelled failure that carries the
\* number of transfers completed so far.
C11_CancelReturnsReport ==
    pc = "killed" =>
        /\ inflight = {}
        /\ result = [ok |-> FALSE, err |-> "Cancelled", transferred |-> completed]

\* the entries now at the destination, whatever root they are under
DestEntries == IF RemoteDest THEN DOMAIN store ELSE DOMAIN local

\* C12: when the delete loop reaches a path that is no longer at the
\* destination, the delete of that path can succeed and the run go on, for
\* an object store destination and for a local destination alike.
C12_DeleteOfMissingSucceeds ==
    \A d \in to_delete :
        (pc = "sync" /\ CanDelete /\ d \notin DestEntries) => ENABLED DeleteStep(d)

\* a command whose source and destination are both local paths takes its
\* step, other than being interrupted
LocalToLocalStep == cmd.dir = "l2l" /\ pc = "start" /\ pc' # "killed"

\* no listing, read, write or delete is made and no tree changes
NothingTouched ==
    UNCHANGED << store, local, local_exists, attempts, source_files,
                 dest_files, written, deleted, completed, ndeleted >>

\* C13 as stated: a copy or sync between two local paths always fails with
\* InvalidOperation and makes no listing, read, write or delete.
C13_AlwaysInvalidOperation ==
    [][ LocalToLocalStep =>
          /\ pc' = "failed"
          /\ result' = Err("InvalidOperation")
          /\ NothingTouched ]_vars

\* C13: a copy or sync between two local paths always fails and makes no
\* listing, read, write or delete; the error is InvalidOperation when the
\* configuration loads and names a bucket, and the Config error of
\* Config::load or S3Storage::new otherwise.
C13_LocalToLocalFails ==
    [][ LocalToLocalStep =>
          /\ pc' = "failed"
          /\ result' \in { Err("InvalidOperation"), Err("Config") }
          /\ (~bucket => result' = Err("Config"))
          /\ NothingTouched ]_vars

\* a copy between two local paths that returned InvalidOperation
C13_Witness ==
    /\ cmd.dir = "l2l"
    /\ cmd.op = "copy"
    /\ pc = "failed"
    /\ result = Err("InvalidOperation")
    /\ local # Empty

\* C14: when a listing of a sync fails, the sync returns the failure and no
\* transfer, write, directory creation or delete has been applied to either
\* tree.
C14_ListingFailureAppliesNothing ==
    [][ (cmd.op = "sync" /\ pc = "start" /\ attempts' # attempts /\ Failed') =>
          /\ pc' = "failed"
          /\ store' = store
          /\ local' = local
          /\ local_exists' = local_exists
          /\ written' = written
          /\ deleted' = deleted ]_vars

\* C15: within one run no listing, transfer read, transfer write or delete
\* is made more than once, whatever retry_attempts is.
C15_AttemptedAtMostOnce ==
    \A a \in BagToSet(attempts) : CopiesIn(a, attempts) <= 1

\* a run configured with retries that failed on the write of a transfer
C15_Witness ==
    /\ pc = "failed"
    /\ retry_attempts > 0
    /\ Failed
    /\ inflight = {}
    /\ \E a \in BagToSet(attempts) : a.kind = "write"

\* an abstract snapshot (relative path -> metadata) as the listing of the
\* tree under a remote prefix
EmbedUnder(abs, prefix) ==
    LET root == ObjectPathFrom(prefix) IN
    [k \in { Below(root, r) : r \in DOMAIN abs } |-> abs[RelUnder(k, root)]]

\* the transfers a direction computes from abstract snapshots A and B, as
\* pairs (relative source path, destination path relative to its root)
TransfersOf(dir, A, B, sp, dp) ==
    CASE dir = "r2r" ->
           { << RelUnder(t.src, ObjectPathFrom(sp)),
                RelUnder(ObjectPathFrom(t.dst), ObjectPathFrom(dp)) >> :
               t \in CopySetR2R(EmbedUnder(A, sp), EmbedUnder(B, dp), sp, dp) }
      [] dir = "l2r" ->
           { << t.src, RelUnder(ObjectPathFrom(t.dst), ObjectPathFrom(dp)) >> :
               t \in CopySetL2R(A, EmbedUnder(B, dp), dp) }
      [] dir = "r2l" ->
           { << RelUnder(t.src, ObjectPathFrom(sp)), t.dst >> :
               t \in CopySetR2L(EmbedUnder(A, sp), B, sp) }

\* the deletes a direction computes, as destination relative paths
DeletesOf(dir, A, B, sp, dp) ==
    CASE dir = "r2r" ->
           { RelUnder(d, ObjectPathFrom(dp)) :
               d \in DeleteSetR2R(EmbedUnder(A, sp), EmbedUnder(B, dp), sp, dp) }
      [] dir = "l2r" ->
           { RelUnder(d, ObjectPathFrom(dp)) :
               d \in DeleteSetL2R(A, EmbedUnder(B, dp), dp) }
      [] dir = "r2l" -> DeleteSetR2L(EmbedUnder(A, sp), B, sp)

\* the snapshots of the run, keyed by relative path
AbsSource ==
    [r \in { SrcRel(k) : k \in DOMAIN source_files } |->
        source_files[IF RemoteSource THEN Below(SrcRoot, r) ELSE r]]
AbsDest ==
    [r \in { DstRel(k) : k \in DOMAIN dest_files } |->
        dest_files[IF RemoteDest THEN Below(DstRoot, r) ELSE r]]

\* C16: on the snapshots and prefixes of any sync, the three directions
\* compute the same transfers (relative path -> destination path) and the
\* same deletes.
C16_DirectionsAgree ==
    (Fresh /\ cmd.op = "sync") =>
        \A d1, d2 \in {"r2r", "l2r", "r2l"} :
            /\ TransfersOf(d1, AbsSource, AbsDest, cmd.source, cmd.dest) =
               TransfersOf(d2, AbsSource, AbsDest, cmd.source, cmd.dest)
            /\ DeletesOf(d1, AbsSource, AbsDest, cmd.source, cmd.dest) =
               DeletesOf(d2, AbsSource, AbsDest, cmd.source, cmd.dest)

\* C17: the step of a sync that builds the two snapshots modifies neither
\* tree: no entry and no directory is created, written or removed.
C17_SnapshotsReadOnly ==
    [][ (cmd.op = "sync" /\ pc = "start" /\ pc' = "sync") =>
          /\ store' = store
          /\ local' = local
          /\ local_exists' = local_exists ]_vars

\* C18: in a sync or a recursive copy, the transfers of two different source
\* entries write two different destination paths.
C18_DistinctDestinations ==
    Fresh =>
        \A t1, t2 \in files_to_copy :
            t1.src # t2.src => Target(t1.dst) # Target(t2.dst)

\* what a listing of the source tree returns now
SourceListing ==
    IF RemoteSource THEN list_files_with_metadata(store, cmd.source)
    ELSE local_files_map(local)

\* a path under the destination root
UnderDstRoot(w) ==
    IF RemoteDest THEN DstRoot = <<>> \/ StartsWith(w, DstRoot \o <<SEP>>)
    ELSE w # <<>> /\ Head(w) # SEP

\* C19: in a sync every write goes to a path under the destination root and
\* every delete to a path of the destination snapshot; no step changes the
\* entries under the source root or their metadata (remote to remote: when
\* the two prefixes name disjoint trees).
C19_SourceUntouched ==
    [][ cmd.op = "sync" =>
          /\ DisjointTrees => SourceListing' = SourceListing
          /\ \A w \in written' \ written : UnderDstRoot(w)
          /\ \A d \in deleted' \ deleted : d \in DOMAIN dest_files ]_vars

\* a finished remote to remote sync between disjoint trees that transferred
\* an entry and deleted another
C19_Witness ==
    /\ cmd.op = "sync"
    /\ cmd.dir = "r2r"
    /\ DisjointTrees
    /\ pc = "done"
    /\ completed > 0
    /\ ndeleted > 0
    /\ source_files # Empty
    /\ SourceListing = source_files

\* the directories of the tree, the walked directory among them, and the
\* relative paths of its other entries
RealDirs == { WalkRoot } \cup { WalkRoot \o p : p \in { q \in DOMAIN tree : tree[q].kind = "dir" } }
NonDirs == { p \in DOMAIN tree : tree[p].kind # "dir" }

\* no directory has been read twice, nothing but a directory of the tree has
\* been read or is waiting to be read, no entry has been collected twice, and
\* a walk that returned Ok has read every directory and collected every
\* other entry
WalkSafe ==
    /\ \A d \in BagToSet(visited) : CopiesIn(d, visited) = 1 /\ d \in RealDirs
    /\ \A i \in DOMAIN dirs : dirs[i] \in RealDirs
    /\ \A f \in BagToSet(files) : CopiesIn(f, files) = 1 /\ f \in NonDirs
    /\ wpc = "done" => BagToSet(visited) = RealDirs /\ BagToSet(files) = NonDirs

\* C20: the walk of a finite tree, symbolic links that form a cycle or leave
\* the tree included, ends; it never descends into a symbolic link, reads
\* every directory exactly once and returns every other entry exactly once
\* with its path relative to the walked directory.
C20_WalkTerminates == []WalkSafe /\ <>(wpc \in {"done", "failed"})

\* a finished walk of a tree with a directory, a file in it, and a symbolic
\* link back to the walked directory
C20_Witness ==
    /\ wpc = "done"
    /\ \E p, q, l \in DOMAIN tree :
          /\ tree[p].kind = "dir"
          /\ Len(q) = 2 /\ tree[q].kind = "file"
          /\ tree[l].kind = "link" /\ tree[l].to = <<>>

====
